---- MODULE Spec2Model ----
(***************************************************************************)
(* A model of the SDS011 driver (go/sds011/sds011.go): the request and     *)
(* response frame codec, the checksum, the reply matcher (receiveReply)    *)
(* and the Sensor session operations over one byte-stream transport.       *)
(*                                                                         *)
(* The transport is the io.ReadWriteCloser the Sensor holds.  Its unread   *)
(* input is the sequence rx of chunks: a chunk of 10 bytes is one whole    *)
(* frame, a shorter chunk is a read that the transport ends with an error  *)
(* after that many bytes.  A read of an empty rx blocks.                   *)
(***************************************************************************)
EXTENDS Integers, Sequences, FiniteSets, TLC

\* ------------------------------------------------------------------ bounds

\* The most chunks the device may have pending, unread, on the transport.
MaxPending == 2

\* The most calls of Sensor.Close followed.
MaxCloses == 2

\* --------------------------------------------------------------- constants

commandReportMode == 2
commandQuery == 4
commandDeviceID == 5
commandWorkState == 6
commandFirmware == 7
commandCycle == 8

modeGet == 0
modeSet == 1

reportModeActive == 0
reportModeQuery == 1

workStateSleeping == 0
workStateMeasuring == 1

\* A loop bound one short, and one too long: for i := 0; i < 9 (or 11); i++.
attemptsOneShort == 10 - 1
attemptsOneMore == 10 + 1

\* The loop bound of receiveReply: for i := 0; i < 10; i++.
maxAttempts == 10

\* The largest cycle SetCycle accepts.
maxCycle == 30

\* Wire bytes: 0xAA, 0xAB, 0xB4, 0xC0, 0xC5, 0xFF.
HeaderByte == 170
TailByte == 171
SendMarkerByte == 180
StreamByte == 192
ReplyByte == 197
BroadcastByte == 255

\* The size in bytes of the response struct read by binary.Read.
ResponseSize == 10

Commands == {commandReportMode, commandQuery, commandDeviceID,
             commandWorkState, commandFirmware, commandCycle}
Modes == {modeGet, modeSet}
Byte == 0..255

\* ------------------------------------------------------------ byte helpers

RECURSIVE SumInt(_)
\* Integer accumulation (checksum += int(v)), no wrapping.
SumInt(s) == IF s = <<>> THEN 0 ELSE Head(s) + SumInt(Tail(s))

\* An accumulator wider than a byte over the first n bytes: no += wraps.
SumByteNoWrap(s, n) == SumInt(SubSeq(s, 1, n))

RECURSIVE SumByte(_, _)
\* A byte accumulator over the first n bytes: every += wraps at 256.
SumByte(s, n) == IF n = 0 THEN 0 ELSE (SumByte(s, n - 1) + s[n]) % 256

DigitChars == <<"0", "1", "2", "3", "4", "5", "6", "7", "8", "9">>

\* %d of a byte: decimal, no padding.
FmtD(n) ==
    IF n < 10 THEN <<DigitChars[n + 1]>>
    ELSE IF n < 100 THEN <<DigitChars[(n \div 10) + 1], DigitChars[(n % 10) + 1]>>
    ELSE <<DigitChars[(n \div 100) + 1], DigitChars[((n \div 10) % 10) + 1],
           DigitChars[(n % 10) + 1]>>

\* fmt's %02d of a byte: decimal, zero-padded to at least two digits.
Fmt02d(n) ==
    IF n < 10 THEN <<"0", DigitChars[n + 1]>>
    ELSE IF n < 100 THEN <<DigitChars[(n \div 10) + 1], DigitChars[(n % 10) + 1]>>
    ELSE <<DigitChars[(n \div 100) + 1], DigitChars[((n \div 10) % 10) + 1],
           DigitChars[(n % 10) + 1]>>

\* binary.BigEndian.Uint16 of two bytes.
Uint16BE(lo, hi) == 256 * lo + hi

\* binary.LittleEndian.Uint16 of two bytes.
Uint16LE(lo, hi) == lo + 256 * hi

\* ---------------------------------------------------------------- response

\* binary.Read into the response struct: the 10 bytes in field order.
decodeResponse(b) ==
    [Header |-> b[1], Command |-> b[2], Data |-> SubSeq(b, 3, 8),
     CheckSum |-> b[9], Tail |-> b[10]]

NilResponse ==
    [Header |-> 0, Command |-> 0, Data |-> <<0, 0, 0, 0, 0, 0>>,
     CheckSum |-> 0, Tail |-> 0]

\* An IsReply that takes the stream marker 0xC0 for the reply marker.
IsReplyStreamMarker(resp) == resp.Command = StreamByte

IsReply(resp) == resp.Command = ReplyByte

\* An IsCorrect that compares nothing and accepts every response.
IsCorrectUnchecked(resp) == ""

\* An IsCorrect whose loop stops one byte early (i < 5 for i < 6).
IsCorrectFiveBytes(resp) ==
    IF SumByte(resp.Data, 5) # resp.CheckSum THEN "bad checksum" ELSE ""

\* IsCorrect: the error it returns, "" for nil.
IsCorrect(resp) ==
    IF SumByte(resp.Data, 6) # resp.CheckSum THEN "bad checksum" ELSE ""

\* A check that lets every response through.
checkMatchesNever(resp, cmd) == FALSE

\* checkMatches panics exactly when this holds.
checkMatchesPanics(resp, cmd) == resp.Data[1] # cmd

\* What an accessor or an operation gives back.  kind: "none" (nothing yet),
\* "ok" (nil error, no value), "bool", "string", "uint8", "point", "err",
\* "panic".  PM25 and PM10 are in tenths of a microgram per cubic metre (the
\* float64 is that number divided by 10).
NoResult ==
    [kind |-> "none", err |-> "", b |-> FALSE, n |-> 0, s |-> <<>>,
     PM25 |-> 0, PM10 |-> 0]
Panic == [NoResult EXCEPT !.kind = "panic"]
Nil == [NoResult EXCEPT !.kind = "ok"]
Error(e) == [NoResult EXCEPT !.kind = "err", !.err = e]
Bool(v) == [NoResult EXCEPT !.kind = "bool", !.b = v]
String(v) == [NoResult EXCEPT !.kind = "string", !.s = v]
Uint8(v) == [NoResult EXCEPT !.kind = "uint8", !.n = v]

responsePM25(resp) ==
    IF IsReply(resp) THEN Panic
    ELSE [NoResult EXCEPT !.kind = "point",
                          !.PM25 = Uint16LE(resp.Data[1], resp.Data[2])]

responsePM10(resp) ==
    IF IsReply(resp) THEN Panic
    ELSE [NoResult EXCEPT !.kind = "point",
                          !.PM10 = Uint16LE(resp.Data[3], resp.Data[4])]

responseFirmware(resp) ==
    IF checkMatchesPanics(resp, commandFirmware) THEN Panic
    ELSE String(Fmt02d(resp.Data[2]) \o <<"-">> \o Fmt02d(resp.Data[3])
                \o <<"-">> \o Fmt02d(resp.Data[4]))

responseDeviceID(resp) ==
    IF checkMatchesPanics(resp, commandDeviceID) THEN Panic
    ELSE String(Fmt02d(resp.Data[2]) \o Fmt02d(resp.Data[3]))

responseReportMode(resp) ==
    IF checkMatchesPanics(resp, commandReportMode) THEN Panic
    ELSE Uint8(resp.Data[3])

responseCycle(resp) ==
    IF checkMatchesPanics(resp, commandCycle) THEN Panic
    ELSE Uint8(resp.Data[3])

responseWorkState(resp) ==
    IF checkMatchesPanics(resp, commandWorkState) THEN Panic
    ELSE Uint8(resp.Data[3])

\* ----------------------------------------------------------------- request

\* A makeRequest whose checksum leaves the two device-id bytes out.
makeRequestNoDeviceID(cmd, mod, value) ==
    LET data == <<value, 0, 0, 0, 0, 0, 0, 0, 0, 0, 0>>
        deviceID == <<BroadcastByte, BroadcastByte>>
        checksum == cmd + mod + SumInt(data)
    IN [Header |-> HeaderByte, SendMarker |-> SendMarkerByte, Command |-> cmd,
        Mode |-> mod, Data |-> data, DeviceID |-> deviceID,
        CheckSum |-> checksum % 256, Tail |-> TailByte]

makeRequest(cmd, mod, value) ==
    LET data == <<value, 0, 0, 0, 0, 0, 0, 0, 0, 0, 0>>
        deviceID == <<BroadcastByte, BroadcastByte>>
        checksum == cmd + mod + SumInt(data) + SumInt(deviceID)
    IN [Header |-> HeaderByte, SendMarker |-> SendMarkerByte, Command |-> cmd,
        Mode |-> mod, Data |-> data, DeviceID |-> deviceID,
        CheckSum |-> checksum % 256, Tail |-> TailByte]

\* binary.Write of the request struct: the 19 bytes in field order.
encodeRequest(req) ==
    <<req.Header, req.SendMarker, req.Command, req.Mode>> \o req.Data
        \o req.DeviceID \o <<req.CheckSum, req.Tail>>

\* ------------------------------------------------------------------- state

VARIABLES
    rx,        \* the transport's unread input: a sequence of chunks
    pc,        \* "idle", "reply" (in receiveReply), "get" (in Get), "done"
    op,        \* the operation in flight, or the last one
    arg,       \* the arguments of the call, a tuple
    i,         \* receiveReply's loop counter
    wrote,     \* the Write calls of this operation: [bytes, ok]
    nread,     \* the chunks this operation has taken from the transport
    nskip,     \* how many of them were checksum-correct non-reply frames
    lastRead,  \* the last chunk this operation took
    rr,        \* what receive / receiveReply last returned: [err, resp]
    ret,       \* what the operation returned
    closeCalls,  \* the calls of Sensor.Close so far
    closed     \* how many times the transport's Close has been invoked

vars == <<rx, pc, op, arg, i, wrote, nread, nskip, lastRead, rr, ret,
          closeCalls, closed>>

NoReturn == [err |-> "", resp |-> NilResponse]

Init ==
    /\ rx = <<>>
    /\ pc = "idle"
    /\ op = "none"
    /\ arg = <<>>
    /\ i = 0
    /\ wrote = <<>>
    /\ nread = 0
    /\ nskip = 0
    /\ lastRead = <<>>
    /\ rr = NoReturn
    /\ ret = NoResult
    /\ closeCalls = 0
    /\ closed = 0

\* ------------------------------------------------------------------ device

\* A frame as the sensor puts it on the wire: header, discriminator, six
\* payload bytes, their sum modulo 256, tail.
DeviceFrame(cmd, data) ==
    <<HeaderByte, cmd>> \o data \o <<SumInt(data) % 256, TailByte>>

\* A measurement: PM2.5 raw 340 (3.4), PM10 raw 380 (3.8), device id 0x1234.
StreamFrame == DeviceFrame(StreamByte, <<84, 1, 124, 1, 18, 52>>)

\* The replies to the five commands whose reply the driver reads.
FirmwareReply == DeviceFrame(ReplyByte, <<commandFirmware, 17, 3, 20, 18, 52>>)
ReportModeReply ==
    DeviceFrame(ReplyByte, <<commandReportMode, 0, reportModeQuery, 0, 18, 52>>)
DeviceIDReply == DeviceFrame(ReplyByte, <<commandDeviceID, 18, 52, 0, 18, 52>>)
WorkStateReply ==
    DeviceFrame(ReplyByte, <<commandWorkState, 0, workStateMeasuring, 0, 18, 52>>)
CycleReply == DeviceFrame(ReplyByte, <<commandCycle, 0, 30, 0, 18, 52>>)

\* A measurement frame damaged on the line: its checksum byte is one too large.
BadChecksumFrame == [StreamFrame EXCEPT ![9] = (StreamFrame[9] + 1) % 256]

\* A reply frame damaged on the line in its payload.
BadChecksumReply == [FirmwareReply EXCEPT ![4] = 18]

\* A measurement frame whose first byte is not 0xAA and whose last is not 0xAB
\* (the reader is out of step with the stream), the checksum byte fitting.
BadFramingFrame == [StreamFrame EXCEPT ![1] = 0, ![10] = 0]

\* A read that ends with a transport error after three bytes.
ShortRead == <<HeaderByte, StreamByte, 84>>

Replies == {FirmwareReply, ReportModeReply, DeviceIDReply, WorkStateReply,
            CycleReply}

Chunks == {StreamFrame, BadChecksumFrame, BadChecksumReply, BadFramingFrame,
           ShortRead} \cup Replies

\* The device (or the line) puts one more chunk on the transport.
Deliver(S) ==
    /\ Len(rx) < MaxPending
    /\ \E c \in S : rx' = Append(rx, c)
    /\ UNCHANGED <<pc, op, arg, i, wrote, nread, nskip, lastRead, rr, ret,
                   closeCalls, closed>>

\* ---------------------------------------------------------------- receive

\* binary.Read of 10 bytes, then IsCorrect: what receive returns for the
\* chunk the transport hands it.
receive(chunk) ==
    IF Len(chunk) < ResponseSize
    THEN [err |-> IF Len(chunk) = 0 THEN "EOF" ELSE "unexpected EOF",
          resp |-> NilResponse]
    ELSE LET data == decodeResponse(chunk)
         IN IF IsCorrect(data) # ""
            THEN [err |-> IsCorrect(data), resp |-> NilResponse]
            ELSE [err |-> "", resp |-> data]

\* Whether a chunk is a whole frame whose payload sums to its checksum byte,
\* as seen on the wire (not through the driver's decoder).
WireValid(chunk) ==
    /\ Len(chunk) = ResponseSize
    /\ (chunk[3] + chunk[4] + chunk[5] + chunk[6] + chunk[7] + chunk[8]) % 256
        = chunk[9]

WireIsReply(chunk) == Len(chunk) = ResponseSize /\ chunk[2] = ReplyByte

\* A read that, given a chunk whose checksum does not fit, throws away
\* whatever else is unread.
TakeDraining ==
    /\ closed = 0
    /\ rx # <<>>
    /\ rx' = IF WireValid(Head(rx)) THEN Tail(rx) ELSE <<>>
    /\ lastRead' = Head(rx)
    /\ nread' = nread + 1
    /\ nskip' = IF WireValid(Head(rx)) /\ ~WireIsReply(Head(rx))
                THEN nskip + 1 ELSE nskip
    /\ UNCHANGED <<closeCalls, closed>>

\* The transport, open, hands over its first unread chunk.
Take ==
    /\ closed = 0
    /\ rx # <<>>
    /\ rx' = Tail(rx)
    /\ lastRead' = Head(rx)
    /\ nread' = nread + 1
    /\ nskip' = IF WireValid(Head(rx)) /\ ~WireIsReply(Head(rx))
                THEN nskip + 1 ELSE nskip
    /\ UNCHANGED <<closeCalls, closed>>

\* ------------------------------------------------------------------- Sensor

\* A call starts: nothing read, nothing returned yet.
Enter(name, args) ==
    /\ pc = "idle"
    /\ op' = name
    /\ arg' = args
    /\ i' = 0
    /\ nread' = 0
    /\ nskip' = 0
    /\ lastRead' = <<>>
    /\ rr' = NoReturn
    /\ UNCHANGED <<rx, closeCalls, closed>>

\* send: one Write of the encoded request; the transport's Write succeeds
\* (ok) or returns its error.
send(cmd, mod, data, ok) ==
    wrote' = Append(wrote, [bytes |-> encodeRequest(makeRequest(cmd, mod, data)),
                            ok |-> ok])

\* A start that goes on to wait whatever send returned.
RequestIgnoringWriteError(name, args, cmd, mod, value, wait) ==
    /\ Enter(name, args)
    /\ \E ok \in BOOLEAN :
        /\ closed > 0 => ~ok
        /\ send(cmd, mod, value, ok)
        /\ pc' = wait /\ ret' = NoResult

\* The start of every operation that sends a request: send, return its
\* error if it has one, else go on to wait ("reply": in receiveReply,
\* "get": in Get).
Request(name, args, cmd, mod, value, wait) ==
    /\ Enter(name, args)
    /\ \E ok \in BOOLEAN :
        /\ closed > 0 => ~ok
        /\ send(cmd, mod, value, ok)
        /\ IF ok
           THEN pc' = wait /\ ret' = NoResult
           ELSE pc' = "done" /\ ret' = Error("write error")

ReportMode == Request("ReportMode", <<>>, commandReportMode, modeGet, 0, "reply")

MakeActive ==
    Request("MakeActive", <<>>, commandReportMode, modeSet, reportModeActive, "reply")

MakePassive ==
    Request("MakePassive", <<>>, commandReportMode, modeSet, reportModeQuery, "reply")

DeviceID == Request("DeviceID", <<>>, commandDeviceID, modeGet, 0, "reply")

Firmware == Request("Firmware", <<>>, commandFirmware, modeGet, 0, "reply")

Cycle == Request("Cycle", <<>>, commandCycle, modeGet, 0, "reply")

\* A range check that lets the first value past the range through.
cycleOutOfRangeLate(value) == value < 0 \/ value > maxCycle + 1

\* value is a uint8: value < 0 never holds.
cycleOutOfRange(value) == value < 0 \/ value > maxCycle

SetCycle(value) ==
    IF cycleOutOfRange(value)
    THEN /\ Enter("SetCycle", <<value>>)
         /\ UNCHANGED wrote
         /\ pc' = "done"
         /\ ret' = Error("duty cycle: bad value")
    ELSE Request("SetCycle", <<value>>, commandCycle, modeSet, value, "reply")

\* A Query that waits for a reply frame as the other commands do.
QueryAwaitingReply == Request("Query", <<>>, commandQuery, modeGet, 0, "reply")

Query == Request("Query", <<>>, commandQuery, modeGet, 0, "get")

IsAwake == Request("IsAwake", <<>>, commandWorkState, modeGet, 0, "reply")

Awake ==
    Request("Awake", <<>>, commandWorkState, modeSet, workStateMeasuring, "reply")

\* Sleep asking for the work state where it should set it.
SleepGetMode ==
    Request("Sleep", <<>>, commandWorkState, modeGet, workStateSleeping, "reply")

Sleep ==
    Request("Sleep", <<>>, commandWorkState, modeSet, workStateSleeping, "reply")

\* Get: no request; one receive.
Get ==
    /\ Enter("Get", <<>>)
    /\ UNCHANGED wrote
    /\ pc' = "get"
    /\ ret' = NoResult

\* &Point{PM25: data.PM25(), PM10: data.PM10(), ...}: a panic of either
\* accessor is the panic of Get.
Point(resp) ==
    IF responsePM25(resp).kind = "panic" \/ responsePM10(resp).kind = "panic"
    THEN Panic
    ELSE [NoResult EXCEPT !.kind = "point", !.PM25 = responsePM25(resp).PM25,
                          !.PM10 = responsePM10(resp).PM10]

\* An interpretation in which the confirming operations, too, want their
\* command echoed in the reply.
InterpretCheckingEcho(name, resp) ==
    CASE name = "ReportMode" ->
            IF responseReportMode(resp).kind = "panic" THEN Panic
            ELSE Bool(responseReportMode(resp).n = reportModeActive)
      [] name = "DeviceID" -> responseDeviceID(resp)
      [] name = "Firmware" -> responseFirmware(resp)
      [] name = "Cycle" -> responseCycle(resp)
      [] name = "IsAwake" ->
            IF responseWorkState(resp).kind = "panic" THEN Panic
            ELSE Bool(responseWorkState(resp).n = workStateMeasuring)
      [] name \in {"MakeActive", "MakePassive"} ->
            IF checkMatchesPanics(resp, commandReportMode) THEN Panic ELSE Nil
      [] name = "SetCycle" ->
            IF checkMatchesPanics(resp, commandCycle) THEN Panic ELSE Nil
      [] name \in {"Awake", "Sleep"} ->
            IF checkMatchesPanics(resp, commandWorkState) THEN Panic ELSE Nil
      [] OTHER -> Nil

\* What each reply-awaiting operation makes of the reply receiveReply gave it.
Interpret(name, resp) ==
    CASE name = "ReportMode" ->
            IF responseReportMode(resp).kind = "panic" THEN Panic
            ELSE Bool(responseReportMode(resp).n = reportModeActive)
      [] name = "DeviceID" -> responseDeviceID(resp)
      [] name = "Firmware" -> responseFirmware(resp)
      [] name = "Cycle" -> responseCycle(resp)
      [] name = "IsAwake" ->
            IF responseWorkState(resp).kind = "panic" THEN Panic
            ELSE Bool(responseWorkState(resp).n = workStateMeasuring)
      [] OTHER -> Nil

\* A loop that never counts the frames it drops.
receiveReplyNoCount ==
    /\ pc = "reply"
    /\ Take
    /\ LET r == receive(Head(rx))
       IN IF r.err # ""
          THEN /\ rr' = r
               /\ ret' = Error(r.err)
               /\ pc' = "done"
          ELSE IF IsReply(r.resp)
          THEN /\ rr' = r
               /\ ret' = Interpret(op, r.resp)
               /\ pc' = "done"
          ELSE UNCHANGED <<pc, rr, ret>>
    /\ UNCHANGED <<op, arg, i, wrote>>

\* One turn of receiveReply's loop: receive; an error ends the wait, a reply
\* is returned to the operation, anything else is dropped and counted.
receiveReply ==
    /\ pc = "reply"
    /\ Take
    /\ LET r == receive(Head(rx))
       IN IF r.err # ""
          THEN /\ rr' = r
               /\ ret' = Error(r.err)
               /\ pc' = "done"
               /\ i' = i
          ELSE IF IsReply(r.resp)
          THEN /\ rr' = r
               /\ ret' = Interpret(op, r.resp)
               /\ pc' = "done"
               /\ i' = i
          ELSE IF i + 1 < maxAttempts
          THEN /\ i' = i + 1
               /\ UNCHANGED <<pc, rr, ret>>
          ELSE /\ i' = i + 1
               /\ rr' = [err |-> "no reply", resp |-> NilResponse]
               /\ ret' = Error("no reply")
               /\ pc' = "done"
    /\ UNCHANGED <<op, arg, wrote>>

\* Get's receive and the Point it builds.
GetReceive ==
    /\ pc = "get"
    /\ Take
    /\ rr' = receive(Head(rx))
    /\ ret' = IF receive(Head(rx)).err # "" THEN Error(receive(Head(rx)).err)
              ELSE Point(receive(Head(rx)).resp)
    /\ pc' = "done"
    /\ UNCHANGED <<op, arg, i, wrote>>

\* The caller has the operation's result (or its panic) and the session is
\* free for the next call.
Return ==
    /\ pc = "done"
    /\ pc' = "idle"
    /\ op' = "none"
    /\ arg' = <<>>
    /\ i' = 0
    /\ wrote' = <<>>
    /\ nread' = 0
    /\ nskip' = 0
    /\ lastRead' = <<>>
    /\ rr' = NoReturn
    /\ ret' = NoResult
    /\ UNCHANGED <<rx, closeCalls, closed>>

\* Close: sensor.rwc.Close(), whatever came before.  Another thread may call
\* it while an operation waits in a read.
Close ==
    /\ closeCalls < MaxCloses
    /\ closeCalls' = closeCalls + 1
    /\ closed' = closed + 1
    /\ UNCHANGED <<rx, pc, op, arg, i, wrote, nread, nskip, lastRead, rr, ret>>

\* A wait that answers the closed transport as it answers ten frames with no
\* reply among them.
ReadClosedAsNoReply ==
    /\ pc \in {"reply", "get"}
    /\ closed > 0
    /\ rr' = [err |-> "no reply", resp |-> NilResponse]
    /\ ret' = Error("no reply")
    /\ pc' = "done"
    /\ UNCHANGED <<rx, op, arg, i, wrote, nread, nskip, lastRead, closeCalls,
                   closed>>

\* A read of the closed transport returns the transport's error (a pending
\* read is woken with it); binary.Read hands it to receive, receive to
\* receiveReply or Get, and the operation returns it.
ReadClosed ==
    /\ pc \in {"reply", "get"}
    /\ closed > 0
    /\ rr' = [err |-> "file already closed", resp |-> NilResponse]
    /\ ret' = Error("file already closed")
    /\ pc' = "done"
    /\ UNCHANGED <<rx, op, arg, i, wrote, nread, nskip, lastRead, closeCalls,
                   closed>>

\* The cycle lengths tried in the session: both ends of the range, the
\* first value past it and the largest uint8.
CycleArgs == {0, 1, maxCycle, maxCycle + 1, 255}

Next ==
    \/ Deliver(Chunks)
    \/ ReportMode
    \/ MakeActive
    \/ MakePassive
    \/ DeviceID
    \/ Firmware
    \/ Cycle
    \/ \E value \in CycleArgs : SetCycle(value)
    \/ Query
    \/ IsAwake
    \/ Awake
    \/ Sleep
    \/ Get
    \/ receiveReply
    \/ GetReceive
    \/ Return

Spec == Init /\ [][Next]_vars

\* ------------------------------------------------- SetCycle, every uint8

\* What the device sends while a cycle is being set: measurements and the
\* reply to the cycle command.
CycleChunks == {StreamFrame, CycleReply}

NextCycle ==
    \/ Deliver(CycleChunks)
    \/ \E value \in Byte : SetCycle(value)
    \/ receiveReply
    \/ Return

\* SetCycle called with every value a uint8 can hold.
SpecCycle == Init /\ [][NextCycle]_vars

\* ------------------------------------------------------- the command tool

\* The conversion uint8(v) of an int: its low eight bits.
uint8(v) == v % 256

\* The numbers given to set_cycle: in range, just past it, and those whose
\* low eight bits are 0, 30, 31 or 255.
ToolArgs == {-257, -256, -226, -225, -1, 0, 1, 30, 31, 255, 256, 286, 287}

\* sds011cmd set_cycle n, n as strconv.Atoi parsed it: sensor.SetCycle of
\* uint8(n), which is SetCycle's range check on the converted value, then
\* its request and its wait.  arg keeps n, what the user typed.  The process
\* ends when the call has returned.
set_cycle(n) ==
    IF cycleOutOfRange(uint8(n))
    THEN /\ Enter("set_cycle", <<n>>)
         /\ UNCHANGED wrote
         /\ pc' = "done"
         /\ ret' = Error("duty cycle: bad value")
    ELSE Request("set_cycle", <<n>>, commandCycle, modeSet, uint8(n), "reply")

NextTool ==
    \/ Deliver(CycleChunks)
    \/ \E n \in ToolArgs : set_cycle(n)
    \/ Cycle
    \/ receiveReply
    \/ Return

\* The command tool run again and again against one device.
SpecTool == Init /\ [][NextTool]_vars

\* -------------------------------------------- the confirming operations

\* What the device sends here: every reply, a measurement, and a reply whose
\* checksum does not fit.
ConfirmChunks == Replies \cup {StreamFrame, BadChecksumReply}

NextConfirm ==
    \/ Deliver(ConfirmChunks)
    \/ MakeActive
    \/ MakePassive
    \/ \E value \in {0, maxCycle, maxCycle + 1} : SetCycle(value)
    \/ Awake
    \/ Sleep
    \/ receiveReply
    \/ Return

\* The operations that return only an error or nil, against every reply.
SpecConfirm == Init /\ [][NextConfirm]_vars

\* ------------------------------------------------------ Firmware's replies

\* The device answers the request that is waiting: one chunk, when the
\* transport has none unread.
Answer(S) ==
    /\ pc = "reply"
    /\ closed = 0
    /\ rx = <<>>
    /\ \E c \in S : rx' = <<c>>
    /\ UNCHANGED <<pc, op, arg, i, wrote, nread, nskip, lastRead, rr, ret,
                   closeCalls, closed>>

\* Year, month and day bytes: one digit, two, three, and the ends.
DateBytes == {0, 3, 9, 10, 17, 20, 99, 100, 255}

\* A measurement, and the firmware reply for every date of DateBytes.
FirmwareChunks ==
    {StreamFrame}
    \cup {DeviceFrame(ReplyByte, <<commandFirmware, y, m, d, 18, 52>>) :
            y \in DateBytes, m \in DateBytes, d \in DateBytes}

NextFirmware ==
    \/ Firmware
    \/ Answer(FirmwareChunks)
    \/ receiveReply
    \/ Return

\* Firmware called against every firmware date.
SpecFirmware == Init /\ [][NextFirmware]_vars

\* ----------------------------------------------- Close, and reads that end

\* What the device sends here: measurements and one reply.
LiveChunks == {StreamFrame, FirmwareReply}

NextClose ==
    \/ Deliver(LiveChunks)
    \/ ReportMode
    \/ MakeActive
    \/ MakePassive
    \/ DeviceID
    \/ Firmware
    \/ Cycle
    \/ \E value \in {maxCycle, maxCycle + 1} : SetCycle(value)
    \/ Query
    \/ IsAwake
    \/ Awake
    \/ Sleep
    \/ Get
    \/ receiveReply
    \/ GetReceive
    \/ Return
    \/ Close
    \/ ReadClosed

\* The session with Close.  A read that can return does return: the thread
\* in receive is not held back for ever once the transport has a chunk for
\* it or has been closed.
SpecClose ==
    /\ Init
    /\ [][NextClose]_vars
    /\ WF_vars(receiveReply)
    /\ WF_vars(GetReceive)
    /\ WF_vars(ReadClosed)

\* The same, with a transport on which every read returns in the end: the
\* device keeps sending as long as the transport takes it.
SpecLive == SpecClose /\ WF_vars(Deliver(LiveChunks))

\* ------------------------------------------------------ the codec, by itself

\* x with bit number bit (0 the lowest) inverted.
FlipBit(x, bit) ==
    IF (x \div (2 ^ bit)) % 2 = 1 THEN x - 2 ^ bit ELSE x + 2 ^ bit

\* Payloads put on the wire for the codec: measurements, the replies, bytes
\* that make the sum wrap, and a measurement whose first byte is a command id.
WirePayloads ==
    {<<84, 1, 124, 1, 18, 52>>, <<0, 0, 0, 0, 0, 0>>,
     <<255, 255, 255, 255, 255, 255>>, <<255, 1, 0, 0, 0, 0>>,
     <<128, 128, 0, 0, 0, 0>>, <<1, 2, 4, 8, 16, 32>>,
     <<34, 0, 38, 0, 18, 52>>, <<34, 0, 38, 0, 0, 0>>}
    \cup {<<c, 17, 3, 20, 18, 52>> : c \in Commands}

\* The frames a device that keeps the protocol sends.
WireFrames ==
    {DeviceFrame(cmd, data) : cmd \in {StreamByte, ReplyByte}, data \in WirePayloads}

\* What else may arrive: a frame with another first or last byte (the reader
\* out of step, a foreign device), or with another checksum byte.
WireBytes == {0, HeaderByte, TailByte}
OddFrames ==
    {[[f EXCEPT ![1] = h] EXCEPT ![10] = t] :
        f \in WireFrames, h \in WireBytes, t \in WireBytes}
    \cup {[f EXCEPT ![9] = (f[9] + d) % 256] : f \in WireFrames, d \in {1, 128, 255}}

\* A frame arrives whole.
Emit ==
    /\ pc = "idle"
    /\ rx = <<>>
    /\ \E f \in WireFrames \cup OddFrames : rx' = <<f>>
    /\ UNCHANGED <<pc, op, arg, i, wrote, nread, nskip, lastRead, rr, ret,
                   closeCalls, closed>>

\* A frame arrives with one bit inverted on the line.
EmitNoisy ==
    /\ pc = "idle"
    /\ rx = <<>>
    /\ \E f \in WireFrames, pos \in 1..ResponseSize, bit \in 0..7 :
        rx' = <<[f EXCEPT ![pos] = FlipBit(f[pos], bit)]>>
    /\ UNCHANGED <<pc, op, arg, i, wrote, nread, nskip, lastRead, rr, ret,
                   closeCalls, closed>>

\* send with any command, mode and value byte.
Send ==
    /\ rx = <<>>
    /\ \E cmd \in Commands, mod \in Modes, value \in Byte, ok \in BOOLEAN :
        /\ Enter("send", <<cmd, mod, value>>)
        /\ send(cmd, mod, value, ok)
        /\ ret' = IF ok THEN Nil ELSE Error("write error")
    /\ pc' = "done"

Accessors == {"Firmware", "DeviceID", "ReportMode", "Cycle", "WorkState"}

\* One of the reply accessors called on a response.
Access(name, resp) ==
    CASE name = "Firmware" -> responseFirmware(resp)
      [] name = "DeviceID" -> responseDeviceID(resp)
      [] name = "ReportMode" -> responseReportMode(resp)
      [] name = "Cycle" -> responseCycle(resp)
      [] name = "WorkState" -> responseWorkState(resp)

\* receive, then one accessor on the response it returned.
ReceiveAccess ==
    /\ pc = "idle"
    /\ Take
    /\ receive(Head(rx)).err = ""
    /\ \E name \in Accessors :
        /\ op' = name
        /\ ret' = Access(name, receive(Head(rx)).resp)
    /\ rr' = receive(Head(rx))
    /\ pc' = "done"
    /\ UNCHANGED <<arg, i, wrote>>

NextCodec ==
    \/ Emit
    \/ EmitNoisy
    \/ Send
    \/ Get
    \/ GetReceive
    \/ ReceiveAccess
    \/ Return

\* The codec exercised frame by frame and request by request.
SpecCodec == Init /\ [][NextCodec]_vars

\* -------------------------------------------------------------- properties

\* The operations that wait for a reply through receiveReply.
ReplyOps == {"ReportMode", "MakeActive", "MakePassive", "DeviceID", "Firmware",
             "Cycle", "SetCycle", "IsAwake", "Awake", "Sleep"}

\* The operation's one request was written and the write succeeded.
WriteDone == Len(wrote) = 1 /\ wrote[1].ok

\* The response a whole frame holds, field by field, as the wire layout
\* gives it (header, discriminator, six payload bytes, checksum, tail).
WireResponse(chunk) ==
    [Header |-> chunk[1], Command |-> chunk[2],
     Data |-> <<chunk[3], chunk[4], chunk[5], chunk[6], chunk[7], chunk[8]>>,
     CheckSum |-> chunk[9], Tail |-> chunk[10]]

\* The error a chunk that is no checksum-correct frame must be answered
\* with: the transport's for a short read, the checksum's otherwise.
WireError(chunk) ==
    IF Len(chunk) = ResponseSize THEN "bad checksum"
    ELSE IF Len(chunk) = 0 THEN "EOF" ELSE "unexpected EOF"

\* C1: a reply-awaiting operation whose request was written and that has so
\* far taken N < 10 frames, all checksum-correct and none a reply, is still
\* waiting (it has neither given up nor returned); it never waits on after a
\* correct reply frame; and when it has taken N such frames and then one
\* correct reply frame, N < 10, receiveReply has returned exactly that frame,
\* with no error, having taken N + 1 frames.
C1_ReplyAfterNonReplies ==
    /\ (op \in ReplyOps /\ WriteDone /\ nread = nskip /\ nskip < 10)
        => pc = "reply"
    /\ (pc = "reply" /\ nread > 0)
        => ~(WireValid(lastRead) /\ WireIsReply(lastRead))
    /\ (op \in ReplyOps /\ nread >= 1 /\ nskip = nread - 1 /\ nskip < 10
            /\ WireValid(lastRead) /\ WireIsReply(lastRead))
        => /\ pc = "done"
           /\ rr.err = ""
           /\ rr.resp = WireResponse(lastRead)
           /\ ret.kind # "err"
           /\ nread = nskip + 1

\* C1 witness: nine non-reply frames were dropped, the tenth frame was the
\* reply and was returned, and a later frame is still unread.
C1_Witness ==
    /\ op \in ReplyOps /\ pc = "done"
    /\ nskip = 9 /\ nread = 10
    /\ rr.err = "" /\ rr.resp = WireResponse(lastRead)
    /\ rx # <<>>

\* C2: no operation ever takes more than 10 frames, and a reply-awaiting
\* operation that has taken 10 checksum-correct non-reply frames has failed
\* with "no reply" after exactly those 10.
C2_NoReplyAfterTen ==
    /\ nread <= 10
    /\ (op \in ReplyOps /\ nskip >= 10)
        => /\ pc = "done"
           /\ nread = 10
           /\ rr.err = "no reply"
           /\ rr.resp = NilResponse
           /\ ret = Error("no reply")
    /\ (pc = "done" /\ rr.err = "no reply") => (nskip = 10 /\ nread = 10)

\* C2 witness: "no reply" after ten frames while the eleventh, a correct
\* reply frame, is unread on the transport.
C2_Witness ==
    /\ op \in ReplyOps /\ pc = "done"
    /\ ret = Error("no reply")
    /\ nread = 10
    /\ rx # <<>> /\ WireValid(Head(rx)) /\ WireIsReply(Head(rx))

\* C3: a reply-awaiting operation never waits on after a chunk that is not
\* a checksum-correct frame, and when the last chunk it took is such a chunk
\* it has returned that chunk's error: no response, not "no reply".
C3_DecodeErrorEndsWait ==
    /\ (pc = "reply" /\ nread > 0) => WireValid(lastRead)
    /\ (op \in ReplyOps /\ nread > 0 /\ ~WireValid(lastRead))
        => /\ pc = "done"
           /\ rr.err = WireError(lastRead)
           /\ rr.resp = NilResponse
           /\ ret = Error(WireError(lastRead))

\* C3 witness: the tenth frame failed its checksum, the operation returned
\* that error, and a correct reply frame follows unread.
C3_Witness ==
    /\ op \in ReplyOps /\ pc = "done"
    /\ nread = 10 /\ nskip = 9
    /\ ret = Error("bad checksum")
    /\ rx # <<>> /\ WireValid(Head(rx)) /\ WireIsReply(Head(rx))

\* What receive was given in the codec's runs: one whole frame.
FrameReceived ==
    /\ op \in {"Get"} \cup Accessors
    /\ pc = "done"
    /\ nread = 1
    /\ Len(lastRead) = ResponseSize

\* C4: receive accepts a 10-byte frame exactly when its first byte is 0xAA,
\* its last byte is 0xAB and its six payload bytes sum, modulo 256, to its
\* checksum byte.
C4_AcceptsIffFramedAndSummed ==
    FrameReceived
        => ((rr.err = "")
            <=> (lastRead[1] = 170 /\ lastRead[10] = 171 /\ WireValid(lastRead)))

\* C5: SetCycle with a value outside 0..30 has returned the bad-value error
\* with nothing written and nothing read; with a value in 0..30 it is not
\* rejected and has written exactly one request, whose payload byte 0 (the
\* fifth byte of the frame) is the value.
C5_SetCycleRange ==
    op = "SetCycle"
        => IF arg[1] \in 0..30
           THEN /\ ret # Error("duty cycle: bad value")
                /\ Len(wrote) = 1
                /\ Len(wrote[1].bytes) = 19
                /\ wrote[1].bytes[3] = 8
                /\ wrote[1].bytes[4] = 1
                /\ wrote[1].bytes[5] = arg[1]
           ELSE /\ pc = "done"
                /\ ret = Error("duty cycle: bad value")
                /\ wrote = <<>>
                /\ nread = 0

\* C5 witness: SetCycle(31) was rejected while a frame lay unread on the
\* transport.
C5_Witness ==
    /\ op = "SetCycle" /\ arg = <<31>> /\ pc = "done"
    /\ ret = Error("duty cycle: bad value")
    /\ rx # <<>>

\* The command id each reply accessor expects in payload byte 0.
ExpectedCommand(name) ==
    CASE name = "Firmware" -> 7
      [] name = "DeviceID" -> 5
      [] name = "ReportMode" -> 2
      [] name = "Cycle" -> 8
      [] name = "WorkState" -> 6

\* C6: a reply accessor returns a value exactly when the response is a reply
\* frame (discriminator 0xC5) whose payload byte 0 is the accessor's command
\* id; on every other response it panics.
C6_AccessorNeedsMatchingReply ==
    (op \in Accessors /\ pc = "done")
        => ((ret.kind # "panic")
            <=> (lastRead[2] = 197 /\ lastRead[3] = ExpectedCommand(op)))

\* C7: Get and Query panic on a checksum-correct frame whose discriminator
\* is 0xC5, and return a Point only from a checksum-correct frame whose
\* discriminator is not 0xC5.
C7_NoPointFromReply ==
    (op \in {"Get", "Query"} /\ pc = "done")
        => /\ (nread = 1 /\ WireValid(lastRead) /\ lastRead[2] = 197)
                => ret = Panic
           /\ ret.kind = "point"
                => (nread = 1 /\ WireValid(lastRead) /\ lastRead[2] # 197)
           /\ ret.kind \in {"point", "err", "panic"}

\* C7 witness: Query took a correct reply frame and panicked.
C7_Witness ==
    /\ op = "Query" /\ pc = "done"
    /\ nread = 1 /\ WireValid(lastRead) /\ lastRead[2] = 197
    /\ ret = Panic

\* C8: Get writes nothing and takes exactly one chunk, a whole frame when
\* it returns a Point, a checksum error or a panic.  Query makes exactly one
\* Write, of a Query/Get request, before it reads, and when that Write went
\* through it takes exactly one chunk and returns what Get returns for it:
\* a leading checksum-correct stream frame is returned as the Point.
C8_GetAndQueryDecodeOnce ==
    /\ op = "Get"
        => /\ wrote = <<>>
           /\ nread <= 1
           /\ pc = "done" => nread = 1
           /\ (pc = "done" /\ ret # Error("EOF") /\ ret # Error("unexpected EOF"))
                => Len(lastRead) = 10
    /\ op = "Query"
        => /\ Len(wrote) = 1
           /\ wrote[1].bytes[3] = 4 /\ wrote[1].bytes[4] = 0
           /\ nread <= 1
           /\ (pc = "done" /\ wrote[1].ok) => nread = 1
           /\ (pc = "done" /\ nread = 1 /\ WireValid(lastRead)
                    /\ lastRead[2] # 197)
                => ret = [NoResult EXCEPT
                            !.kind = "point",
                            !.PM25 = lastRead[3] + 256 * lastRead[4],
                            !.PM10 = lastRead[5] + 256 * lastRead[6]]

\* C8 witness: Query returned the stream frame that came first as its Point
\* and left the reply frame behind it unread.
C8_Witness ==
    /\ op = "Query" /\ pc = "done"
    /\ nread = 1 /\ lastRead = StreamFrame
    /\ ret.kind = "point" /\ ret.PM25 = 340 /\ ret.PM10 = 380
    /\ rx # <<>> /\ WireIsReply(Head(rx))

\* The request struct read back from 19 bytes in field order.
WireRequest(b) ==
    [Header |-> b[1], SendMarker |-> b[2], Command |-> b[3], Mode |-> b[4],
     Data |-> SubSeq(b, 5, 15), DeviceID |-> SubSeq(b, 16, 17),
     CheckSum |-> b[18], Tail |-> b[19]]

\* C9: what send writes for (command, mode, value) is 19 bytes: 0xAA, 0xB4,
\* command, mode, value, ten zero bytes, 0xFF, 0xFF, the checksum, 0xAB; the
\* checksum is (command + mode + the 11 payload bytes + the 2 device-id
\* bytes) mod 256; read back, the bytes give the same command, mode and
\* value and a checksum that fits the fields read back.
C9_RequestEncoding ==
    (op = "send" /\ pc = "done")
        => LET b == wrote[1].bytes
               q == WireRequest(b)
           IN /\ Len(wrote) = 1
              /\ Len(b) = 19
              /\ b[1] = 170 /\ b[2] = 180
              /\ b[3] = arg[1] /\ b[4] = arg[2] /\ b[5] = arg[3]
              /\ \A k \in 6..15 : b[k] = 0
              /\ b[16] = 255 /\ b[17] = 255
              /\ b[19] = 171
              /\ b[18] = (arg[1] + arg[2] + arg[3] + 255 + 255) % 256
              /\ b[18] \in 0..255
              /\ q.Command = arg[1] /\ q.Mode = arg[2] /\ q.Data[1] = arg[3]
              /\ q.CheckSum
                    = (q.Command + q.Mode + SumInt(q.Data) + SumInt(q.DeviceID))
                        % 256

\* C9 witness: the request for command 8, mode 1, value 255 was written,
\* with checksum (8 + 1 + 255 + 510) mod 256 = 6.
C9_Witness ==
    /\ op = "send" /\ pc = "done"
    /\ arg = <<8, 1, 255>>
    /\ wrote[1].bytes[18] = 6

\* The frame g with one bit of byte pos inverted.
Corrupt(g, pos, bit) == [g EXCEPT ![pos] = FlipBit(g[pos], bit)]

\* C10: when the frame receive was given differs in exactly one bit of a
\* payload byte or of the checksum byte from a frame that IsCorrect
\* accepts, receive has rejected it with the checksum error.
C10_SingleBitFlipRejected ==
    (FrameReceived /\ op = "Get")
        => \A pos \in 3..9, bit \in 0..7 :
            IsCorrect(decodeResponse(Corrupt(lastRead, pos, bit))) = ""
                => /\ rr.err = "bad checksum"
                   /\ ret = Error("bad checksum")

\* C10 witness: Get was given a frame whose last payload byte has its top bit
\* inverted, and rejected it.
C10_Witness ==
    /\ FrameReceived /\ op = "Get"
    /\ IsCorrect(decodeResponse(Corrupt(lastRead, 8, 7))) = ""
    /\ ret = Error("bad checksum")

\* C11: once Close has been called on the session, however often and after
\* whatever operations and errors, the transport's Close has been invoked
\* exactly once.
C11_TransportClosedOnce ==
    closeCalls >= 1 => closed = 1

\* The error a read of the closed transport gives.
ClosedError == "file already closed"

C13_ReplyWaitTerminates ==
    /\ [](op \in ReplyOps => nread <= 10)
    /\ [](pc = "reply" /\ rx = <<>> /\ closed = 0
            => ~ENABLED (receiveReply \/ ReadClosed))
    /\ \A name \in ReplyOps :
            (op = name /\ pc = "reply") ~> (op = name /\ pc = "done")

\* C13 witness: the device streamed measurements only, and the operation
\* gave up at the tenth.
C13_Witness ==
    /\ op \in ReplyOps /\ pc = "done" /\ closed = 0
    /\ nread = 10 /\ nskip = 10
    /\ ret.kind = "err" /\ ret.err = "no reply"
    /\ rx # <<>>

\* C14: when Get has taken a whole frame whose checksum fits and whose
\* discriminator is not the reply's, it has returned a Point, and nothing
\* else, whose PM2.5 in tenths is payload byte 0 plus 256 times byte 1 and
\* whose PM10 in tenths is byte 2 plus 256 times byte 3, both in 0..65535;
\* raw 34 and 38 are 3.4 and 3.8.
C14_PointDecoding ==
    (op = "Get" /\ pc = "done" /\ nread = 1 /\ WireValid(lastRead)
            /\ lastRead[2] # 197)
        => /\ ret = [NoResult EXCEPT !.kind = "point",
                                     !.PM25 = lastRead[3] + 256 * lastRead[4],
                                     !.PM10 = lastRead[5] + 256 * lastRead[6]]
           /\ ret.PM25 \in 0..65535 /\ ret.PM10 \in 0..65535
           /\ (lastRead[3] = 34 /\ lastRead[4] = 0
                    /\ lastRead[5] = 38 /\ lastRead[6] = 0)
                => (ret.PM25 = 34 /\ ret.PM10 = 38)

\* C14 witness: Get returned 3.4 and 3.8 from the frame with raw 34 and 38
\* and a device id of zeros.
C14_Witness ==
    /\ op = "Get" /\ pc = "done" /\ nread = 1
    /\ WireValid(lastRead) /\ lastRead[2] = 192
    /\ SubSeq(lastRead, 3, 8) = <<34, 0, 38, 0, 0, 0>>
    /\ ret.kind = "point" /\ ret.PM25 = 34 /\ ret.PM10 = 38

\* The digit a character stands for.
DigitOf(ch) ==
    CASE ch = "0" -> 0 [] ch = "1" -> 1 [] ch = "2" -> 2 [] ch = "3" -> 3
      [] ch = "4" -> 4 [] ch = "5" -> 5 [] ch = "6" -> 6 [] ch = "7" -> 7
      [] ch = "8" -> 8 [] ch = "9" -> 9 [] OTHER -> 10

RECURSIVE DecimalValue(_)
\* The number a string of digits reads as.
DecimalValue(str) ==
    IF str = <<>> THEN 0
    ELSE 10 * DecimalValue(SubSeq(str, 1, Len(str) - 1)) + DigitOf(str[Len(str)])

\* str is n in decimal, at least two digits, padded with zeros only up to two.
IsPaddedDecimal(str, n) ==
    /\ Len(str) >= 2
    /\ \A k \in 1..Len(str) : DigitOf(str[k]) < 10
    /\ DecimalValue(str) = n
    /\ Len(str) > 2 => str[1] # "0"

\* C15: when Firmware has taken a checksum-correct reply frame whose payload
\* byte 0 is 7, it has returned a string made of payload bytes 1, 2 and 3 in
\* that order, each in decimal with at least two digits, zero-padded, with
\* '-' between them; 17, 3, 20 is "17-03-20".
C15_FirmwareString ==
    (op = "Firmware" /\ pc = "done" /\ nread >= 1 /\ WireValid(lastRead)
            /\ lastRead[2] = 197 /\ lastRead[3] = 7)
        => /\ ret.kind = "string"
           /\ \E a \in 2..3, b \in 2..3 :
                /\ Len(ret.s) >= a + b + 4
                /\ ret.s[a + 1] = "-"
                /\ ret.s[a + b + 2] = "-"
                /\ IsPaddedDecimal(SubSeq(ret.s, 1, a), lastRead[4])
                /\ IsPaddedDecimal(SubSeq(ret.s, a + 2, a + b + 1), lastRead[5])
                /\ IsPaddedDecimal(SubSeq(ret.s, a + b + 3, Len(ret.s)), lastRead[6])
           /\ (lastRead[4] = 17 /\ lastRead[5] = 3 /\ lastRead[6] = 20)
                => ret.s = <<"1", "7", "-", "0", "3", "-", "2", "0">>

\* C15 witness: Firmware dropped a measurement, then took the reply with
\* the date 17, 3, 20 and returned "17-03-20".
C15_Witness ==
    /\ op = "Firmware" /\ pc = "done" /\ nread = 2 /\ nskip = 1
    /\ SubSeq(lastRead, 2, 6) = <<197, 7, 17, 3, 20>>
    /\ ret.kind = "string"
    /\ ret.s = <<"1", "7", "-", "0", "3", "-", "2", "0">>

\* The operations that write a request.
SendingOps == ReplyOps \cup {"Query"}

\* C16: when the write of an operation that sends a request has failed,
\* the operation has ended with the transport's error as it was, has made
\* no other write, and has read nothing from the transport.
C16_WriteErrorReturned ==
    (op \in SendingOps /\ wrote # <<>> /\ ~wrote[1].ok)
        => /\ pc = "done"
           /\ ret = [NoResult EXCEPT !.kind = "err", !.err = "write error"]
           /\ Len(wrote) = 1
           /\ nread = 0 /\ lastRead = <<>> /\ rr.err = ""

\* C16 witness: Sleep's write failed with frames waiting on the transport,
\* and Sleep returned the write's error without touching them.
C16_Witness ==
    /\ op = "Sleep" /\ pc = "done"
    /\ Len(wrote) = 1 /\ ~wrote[1].ok
    /\ ret.kind = "err" /\ ret.err = "write error"
    /\ Len(rx) = 2 /\ nread = 0

\* The command and the mode of each reply-awaiting operation's request.
RequestOf(name) ==
    CASE name = "ReportMode" -> [cmd |-> 2, mode |-> 0]
      [] name = "MakeActive" -> [cmd |-> 2, mode |-> 1]
      [] name = "MakePassive" -> [cmd |-> 2, mode |-> 1]
      [] name = "DeviceID" -> [cmd |-> 5, mode |-> 0]
      [] name = "Firmware" -> [cmd |-> 7, mode |-> 0]
      [] name = "Cycle" -> [cmd |-> 8, mode |-> 0]
      [] name = "SetCycle" -> [cmd |-> 8, mode |-> 1]
      [] name = "IsAwake" -> [cmd |-> 6, mode |-> 0]
      [] name = "Awake" -> [cmd |-> 6, mode |-> 1]
      [] name = "Sleep" -> [cmd |-> 6, mode |-> 1]

\* C17: a reply-awaiting operation (SetCycle with a value in 0..30) has, from
\* its first step to its last, written exactly one request, 19 bytes with
\* its own command and mode; and every read it makes comes after that write
\* went through and leaves what was written as it is.
C17_OneWriteBeforeReads ==
    /\ []((op \in ReplyOps /\ (op = "SetCycle" => arg[1] \in 0..30))
            => /\ Len(wrote) = 1
               /\ Len(wrote[1].bytes) = 19
               /\ wrote[1].bytes[3] = RequestOf(op).cmd
               /\ wrote[1].bytes[4] = RequestOf(op).mode)
    /\ [][(op \in ReplyOps /\ op' = op /\ nread' # nread)
            => /\ Len(wrote) = 1 /\ wrote[1].ok
               /\ wrote' = wrote]_vars

\* C17 witness: Cycle has dropped three measurements and is still waiting,
\* with its one request written.
C17_Witness ==
    /\ op = "Cycle" /\ pc = "reply"
    /\ nread = 3 /\ nskip = 3
    /\ Len(wrote) = 1 /\ wrote[1].bytes[3] = 8 /\ wrote[1].bytes[4] = 0

\* The operations that return a value read from the reply.
ValueOps == {"ReportMode", "DeviceID", "Firmware", "Cycle", "IsAwake"}

\* C18: when a value-returning operation has ended on a checksum-correct
\* reply frame whose payload byte 0 is not the command it sent, it has
\* panicked; and when it has returned a value, the frame it ended on is a
\* checksum-correct reply whose payload byte 0 is the command it sent.
C18_NoValueFromOtherReply ==
    (op \in ValueOps /\ pc = "done" /\ WriteDone)
        => /\ (nread >= 1 /\ WireValid(lastRead) /\ lastRead[2] = 197
                    /\ lastRead[3] # wrote[1].bytes[3])
                => ret = [NoResult EXCEPT !.kind = "panic"]
           /\ ret.kind \in {"bool", "string", "uint8"}
                => /\ nread >= 1 /\ WireValid(lastRead)
                   /\ lastRead[2] = 197
                   /\ lastRead[3] = wrote[1].bytes[3]
                   /\ lastRead[3] = RequestOf(op).cmd

\* C18 witness: ReportMode met the firmware reply an earlier operation had
\* left behind, and panicked.
C18_Witness ==
    /\ op = "ReportMode" /\ pc = "done" /\ WriteDone
    /\ nread = 1 /\ lastRead = FirmwareReply
    /\ ret.kind = "panic"

\* The sequence str with the bytes at j and k exchanged.
Swap(str, j, k) == [str EXCEPT ![j] = str[k], ![k] = str[j]]

\* C19: the byte accumulator of IsCorrect and the integer sum mod 256 of
\* makeRequest are one function, and the order of the bytes does not matter
\* to it.  receive accepts a frame exactly when the integer sum of its
\* payload, mod 256, is its checksum byte, and gives the same verdict with
\* any two payload bytes exchanged; the checksum byte of a written request
\* is what the byte accumulator gives for its 15 summed bytes, and the
\* integer sum mod 256 of those bytes with any two exchanged; the payload
\* 0xFF, 0x01, 0, 0, 0, 0 is accepted with checksum 0x00 and no other.
C19_ChecksumArithmetic ==
    /\ (FrameReceived /\ op = "Get")
        => /\ rr.err = "" <=> SumInt(SubSeq(lastRead, 3, 8)) % 256 = lastRead[9]
           /\ \A j \in 3..8, k \in 3..8 :
                IsCorrect(decodeResponse(Swap(lastRead, j, k))) = rr.err
           /\ SubSeq(lastRead, 3, 8) = <<255, 1, 0, 0, 0, 0>>
                => (rr.err = "" <=> lastRead[9] = 0)
    /\ (op = "send" /\ pc = "done")
        => /\ wrote[1].bytes[18] = SumByte(SubSeq(wrote[1].bytes, 3, 17), 15)
           /\ \A j \in 3..17, k \in 3..17 :
                SumInt(SubSeq(Swap(wrote[1].bytes, j, k), 3, 17)) % 256
                    = wrote[1].bytes[18]

\* C19 witness: Get accepted the frame whose payload 0xFF, 0x01, 0, 0, 0, 0
\* sums past 255, with the checksum byte 0x00.
C19_Witness ==
    /\ FrameReceived /\ op = "Get"
    /\ SubSeq(lastRead, 3, 8) = <<255, 1, 0, 0, 0, 0>>
    /\ lastRead[9] = 0
    /\ rr.err = "" /\ ret.kind = "point"

\* C20: every read takes the first unread chunk, exactly that one, whatever
\* receive then makes of it, and leaves the rest in order; no other step
\* removes or reorders an unread chunk (what the device sends goes to the
\* end).  So what one operation leaves unread is what the next one reads
\* first.
C20_ReadsTakeHeadOnly ==
    [][/\ nread' = nread + 1
            => /\ rx # <<>>
               /\ lastRead' = Head(rx)
               /\ rx' = Tail(rx)
       /\ nread' # nread + 1
            => /\ Len(rx') >= Len(rx)
               /\ SubSeq(rx', 1, Len(rx)) = rx]_vars

\* C20 witness: an operation has ended on a frame whose checksum does not
\* fit, its first, and the chunk that came behind it is still unread.
C20_Witness ==
    /\ pc = "done" /\ op \in ReplyOps
    /\ nread = 1 /\ lastRead = BadChecksumFrame
    /\ ret.kind = "err" /\ ret.err = "bad checksum"
    /\ rx = <<FirmwareReply>>

\* The operations that return no value, only whether they went through.
ConfirmOps == {"MakeActive", "MakePassive", "SetCycle", "Awake", "Sleep"}

\* C21: a confirming operation (SetCycle with a value in 0..30) never
\* panics, and when it has ended after its request was written it has
\* returned success exactly when the last frame it took is a
\* checksum-correct reply frame, whatever command that frame answers.
C21_ConfirmationByAnyReply ==
    (op \in ConfirmOps /\ (op = "SetCycle" => arg[1] \in 0..30))
        => /\ ret.kind # "panic"
           /\ (pc = "done" /\ WriteDone)
                => (ret = [NoResult EXCEPT !.kind = "ok"]
                        <=> (nread >= 1 /\ WireValid(lastRead)
                                /\ lastRead[2] = 197))

\* C21 witness: MakeActive took the firmware reply an earlier operation had
\* left unread and returned success.
C21_Witness ==
    /\ op = "MakeActive" /\ pc = "done" /\ WriteDone
    /\ nread = 1 /\ lastRead = FirmwareReply
    /\ lastRead[3] # wrote[1].bytes[3]
    /\ ret.kind = "ok"

\* C22: the command tool's set_cycle, given a number outside 0..30, writes
\* nothing to the sensor and ends with an error; and whatever number it is
\* given, the cycle value in a request it writes is that number.
C22_ToolSendsItsArgument ==
    op = "set_cycle"
        => /\ arg[1] \notin 0..30
                => /\ wrote = <<>>
                   /\ pc = "done"
                   /\ ret.kind = "err"
           /\ wrote # <<>> => wrote[1].bytes[5] = arg[1]

====
